---- MODULE Spec2Model ----
(***************************************************************************)
(* uproot4.interpretation.strings: AsStrings.basket_array (the byte-level  *)
(* string decoder) and AsStrings.final_array (the range stitcher), with    *)
(* the StringArray container they build.                                   *)
(*                                                                         *)
(* Bytes are integers 0..255, buffers are sequences of bytes (index 1 of   *)
(* the sequence is Python index 0).  Every value of the model stays far    *)
(* inside 32 bits, except a 4-byte length whose first byte is >= 128,      *)
(* which is handled apart (see unpack).                                    *)
(***************************************************************************)
EXTENDS Integers, Sequences, FiniteSets, TLC

VARIABLES
    pc,             \* position of the call in flight
    length_bytes,   \* AsStrings._length_bytes: "1-5" or "4"
    header_bytes,   \* AsStrings._header_bytes
    data,           \* basket_array argument: the raw buffer
    byte_offsets,   \* basket_array argument: NoOffsets (None) or the index
    written,        \* the strings the writer encoded into data (NotEncoded: a raw buffer)
    wraps,          \* the build stores an out-of-range int into an int32 slot by wrapping
    scan,           \* locals of the unindexed loop: pos, entry_num, len_outdata, counts, outdata
    output,         \* the local output: the StringArray built
    error,          \* "" or the exception the call raised
    events,         \* hooks and library calls, in order
    basket_arrays,  \* final_array argument: basket number -> StringArray
    entry_start,    \* final_array argument
    entry_stop,     \* final_array argument
    entry_offsets,  \* final_array argument: the entry boundaries of the baskets
    column,         \* the logical column the baskets were cut from
    basket_offsets, \* final_array local
    basket_content, \* final_array local
    length,         \* final_array local
    start,          \* final_array local
    basket_num,     \* final_array local: the loop index of either pass
    offsets,        \* final_array local: the output offsets array
    before,         \* final_array local
    contents,       \* final_array local: the content fragments
    looked_up,      \* the basket numbers pass 2 has indexed basket_offsets with
    pass1,          \* per basket, the count pass 1 added
    pass2,          \* per basket written in pass 2, the destination and source slices
    returned        \* what final_array returned to its caller

decodeVars == <<length_bytes, header_bytes, data, byte_offsets, written, wraps, scan>>

argVars == <<basket_arrays, entry_start, entry_stop, entry_offsets, column,
             basket_offsets, basket_content>>

stitchVars == <<argVars, length, start, basket_num, offsets, before, contents,
                looked_up, pass1, pass2, returned>>

vars == <<pc, decodeVars, output, error, events, stitchVars>>

----------------------------------------------------------------------------
(* Bounds of the model *)

\* longest raw (not necessarily well-formed) buffer handed to basket_array
MaxRaw == 5

\* most strings the writer encodes into one basket
MaxStrings == 2

\* longest raw buffer, and most byte_offsets, of an indexed call on raw input
MaxIndexed == 3

\* most baskets a column is cut into
MaxChunks == 3

\* most entries in one basket
MaxChunkLen == 2

----------------------------------------------------------------------------
(* Python / numpy primitives *)

Min(a, b) == IF a <= b THEN a ELSE b

Max(a, b) == IF a >= b THEN a ELSE b

\* s[a:b] for 0 <= a, 0 <= b: clamped to the sequence, never an error
Slice(s, a, b) ==
    LET hi == Min(b, Len(s))
    IN  IF a >= hi THEN <<>> ELSE SubSeq(s, a + 1, hi)

\* number of slots s[a:b] selects
SliceLen(s, a, b) == Len(Slice(s, a, b))

\* numpy: dst[a:b] = src is accepted when the shapes agree or src has one
\* element (broadcast); otherwise ValueError
CanAssign(dst, a, b, src) ==
    \/ Len(src) = SliceLen(dst, a, b)
    \/ Len(src) = 1

\* dst after dst[a:b] = src (CanAssign holds)
AssignSlice(dst, a, b, src) ==
    LET n == SliceLen(dst, a, b)
    IN  [i \in 1..Len(dst) |->
            IF i > a /\ i <= a + n
            THEN (IF Len(src) = 1 THEN src[1] ELSE src[i - a])
            ELSE dst[i]]

RECURSIVE Sum(_)
Sum(s) == IF s = <<>> THEN 0 ELSE s[1] + Sum(Tail(s))

\* numpy.cumsum(counts, out=offsets[1:]) after offsets[0] = 0
RECURSIVE CumSum(_, _)
CumSum(acc, counts) ==
    IF counts = <<>> THEN <<acc>>
    ELSE <<acc>> \o CumSum(acc + counts[1], Tail(counts))

RECURSIVE Concat(_)
Concat(ss) == IF ss = <<>> THEN <<>> ELSE ss[1] \o Concat(Tail(ss))

----------------------------------------------------------------------------
(* Values *)

\* byte_offsets=None
NoOffsets == <<-1>>

\* written: the buffer was not produced by the writer
NotEncoded == <<<<-1>>>>

\* no StringArray built (a StringArray has at least one offset)
NoOutput == [offsets |-> <<>>, content |-> <<>>]

\* nothing returned yet
NoReturn == [from |-> "", array |-> NoOutput]

\* StringArray.__init__
StringArray(offs, cont) == [offsets |-> offs, content |-> cont]

\* StringArray.__len__
StrLen(a) == Len(a.offsets) - 1

\* the bytes StringArray.__getitem__ slices for entry i (0-based), before ensure_str
StrGet(a, i) == Slice(a.content, a.offsets[i + 1], a.offsets[i + 2])

\* StringArray.__iter__: all the strings, through the running start cursor
Strings(a) == [i \in 1..StrLen(a) |-> StrGet(a, i - 1)]

\* slice size standing for a declared length of 2^31 or more: past every buffer
\* of the model, so every slice it bounds is clamped alike
HugeSize == 2 ^ 30

\* unpack reading the four bytes little-endian ("<I")
unpackLittleEndian(b) ==
    LET low == b[3] * (2 ^ 16) + b[2] * (2 ^ 8) + b[1]
    IN  IF b[4] >= 128
        THEN [big |-> TRUE, size |-> HugeSize,
              stored |-> (b[4] - 256) * (2 ^ 24) + low]
        ELSE [big |-> FALSE, size |-> b[4] * (2 ^ 24) + low,
              stored |-> b[4] * (2 ^ 24) + low]

\* _string_4byte_size.unpack on exactly four bytes (">I").  big: the value is
\* >= 2^31 and does not fit an int32 slot; stored is then the value an int32
\* slot keeps when the store wraps (value - 2^32), size the slicing stand-in.
unpack(b) ==
    LET low == b[2] * (2 ^ 16) + b[3] * (2 ^ 8) + b[4]
    IN  IF b[1] >= 128
        THEN [big |-> TRUE, size |-> HugeSize,
              stored |-> (b[1] - 256) * (2 ^ 24) + low]
        ELSE [big |-> FALSE, size |-> b[1] * (2 ^ 24) + low,
              stored |-> b[1] * (2 ^ 24) + low]

----------------------------------------------------------------------------
(* basket_array, unindexed path *)

\* locals before the loop
ScanInit(d) ==
    [pos |-> 0, entry_num |-> 0, len_outdata |-> 0, counts |-> <<>>,
     outdata |-> [i \in 1..Len(d) |-> -1]]

\* the length prefix at st.pos: the size read and the cursor after it
ReadLength(d, p, mode) ==
    IF mode = "1-5" /\ d[p + 1] # 255
    THEN [err |-> "", big |-> FALSE, size |-> d[p + 1], stored |-> d[p + 1],
          pos |-> p + 1]
    ELSE LET q == IF mode = "1-5" THEN p + 1 ELSE p
             four == Slice(d, q, q + 4)
         IN  IF Len(four) # 4
             THEN [err |-> "struct.error", big |-> FALSE, size |-> 0,
                   stored |-> 0, pos |-> q]
             ELSE LET u == unpack(four)
                  IN  [err |-> "", big |-> u.big, size |-> u.size,
                       stored |-> u.stored, pos |-> q + 4]

\* the copy outdata[len_outdata : len_outdata + size] = data[pos : pos + size]
CopyOut(st, d, hdr) ==
    AssignSlice(st.outdata, st.len_outdata, st.len_outdata + hdr.size,
                Slice(d, hdr.pos, hdr.pos + hdr.size))

\* one iteration of the while loop (st.pos < len(data)); w: an int32 store wraps
ScanStep(st, d, mode, w) ==
    LET hdr == ReadLength(d, st.pos, mode)
    IN  IF hdr.err # "" THEN [err |-> hdr.err, st |-> st]
        ELSE IF hdr.big /\ ~w THEN [err |-> "OverflowError", st |-> st]
        ELSE IF ~CanAssign(st.outdata, st.len_outdata,
                           st.len_outdata + hdr.size,
                           Slice(d, hdr.pos, hdr.pos + hdr.size))
        THEN [err |-> "ValueError", st |-> st]
        ELSE [err |-> "",
              st |-> [pos |-> hdr.pos + hdr.size,
                      entry_num |-> st.entry_num + 1,
                      len_outdata |-> st.len_outdata + hdr.size,
                      counts |-> Append(st.counts, hdr.stored),
                      outdata |-> CopyOut(st, d, hdr)]]

\* counts[:entry_num], outdata[:len_outdata], the offsets and the StringArray
ScanOutput(st) ==
    StringArray(CumSum(0, Slice(st.counts, 0, st.entry_num)),
                Slice(st.outdata, 0, st.len_outdata))

\* the whole loop
RECURSIVE ScanAll(_, _, _, _)
ScanAll(st, d, mode, w) ==
    IF st.pos >= Len(d) THEN [error |-> "", output |-> ScanOutput(st)]
    ELSE LET r == ScanStep(st, d, mode, w)
         IN  IF r.err # "" THEN [error |-> r.err, output |-> NoOutput]
             ELSE ScanAll(r.st, d, mode, w)

----------------------------------------------------------------------------
(* basket_array, indexed path *)

\* byte_starts = byte_offsets[:-1] + header_bytes
ByteStarts0(bo, h) == [i \in 1..(Len(bo) - 1) |-> bo[i] + h]

\* byte_stops = byte_offsets[1:]
ByteStops(bo) == [i \in 1..(Len(bo) - 1) |-> bo[i + 1]]

\* data[byte_starts] raises IndexError: only "1-5" indexes data there
StartsOutOfBounds(d, bo, h, mode) ==
    /\ mode = "1-5"
    /\ \E i \in 1..(Len(bo) - 1) : ByteStarts0(bo, h)[i] >= Len(d)

\* length_header_size with the escape counted as 4 bytes in all
LengthHeaderSizeEscape4(d, bo, h, mode) ==
    [i \in 1..(Len(bo) - 1) |->
        IF mode = "4" THEN 4
        ELSE IF d[ByteStarts0(bo, h)[i] + 1] = 255 THEN 4 ELSE 1]

\* length_header_size
LengthHeaderSize(d, bo, h, mode) ==
    [i \in 1..(Len(bo) - 1) |->
        IF mode = "4" THEN 4
        ELSE IF d[ByteStarts0(bo, h)[i] + 1] = 255 THEN 5 ELSE 1]

\* byte_starts after byte_starts += length_header_size
ByteStarts(d, bo, h, mode) ==
    [i \in 1..(Len(bo) - 1) |->
        ByteStarts0(bo, h)[i] + LengthHeaderSize(d, bo, h, mode)[i]]

\* mask[p] (p 0-based) after mask[byte_starts[byte_starts < len(data)]] = 1,
\* numpy.add.at(mask, byte_stops[byte_stops < len(data)], -1) and
\* numpy.cumsum(mask, out=mask): the positions set to 1 up to p (set once each,
\* however many entries start there) less the stops up to p (one per entry)
MaskSum(starts, stops, p) ==
    Cardinality({starts[i] : i \in DOMAIN starts} \cap 0..p)
    - Cardinality({i \in DOMAIN stops : stops[i] <= p})

\* the mask of the call after the cumulative sum
Mask(d, bo, h, mode) ==
    [i \in 1..Len(d) |->
        MaskSum(ByteStarts(d, bo, h, mode), ByteStops(bo), i - 1)]

\* the running sum leaves {0, 1}: mask.view(numpy.bool_) is then no valid
\* boolean array and what data[mask] selects is undefined
MaskUndefined(d, bo, h, mode) ==
    /\ ~StartsOutOfBounds(d, bo, h, mode)
    /\ LET m == Mask(d, bo, h, mode)
       IN  \E i \in DOMAIN m : m[i] \notin {0, 1}

\* the bytes of d[lo..hi] (1-based, inclusive) the mask selects, in order;
\* truthy: a byte of the mask other than 0 and 1 counts as True (only read
\* when the mask is undefined)
RECURSIVE Pick(_, _, _, _, _)
Pick(d, m, truthy, lo, hi) ==
    IF lo > hi THEN <<>>
    ELSE IF lo = hi
    THEN (IF m[lo] = 1 \/ (truthy /\ m[lo] # 0) THEN <<d[lo]>> ELSE <<>>)
    ELSE LET mid == (lo + hi) \div 2
         IN  Pick(d, m, truthy, lo, mid) \o Pick(d, m, truthy, mid + 1, hi)

\* data[mask.view(numpy.bool_)]
Select(d, bo, h, mode, truthy) ==
    Pick(d, Mask(d, bo, h, mode), truthy, 1, Len(d))

\* counts = byte_stops - byte_starts
IndexedCounts(d, bo, h, mode) ==
    [i \in 1..(Len(bo) - 1) |->
        ByteStops(bo)[i] - ByteStarts(d, bo, h, mode)[i]]

\* the indexed branch and the StringArray built after it
IndexedDecode(d, bo, h, mode, truthy) ==
    IF StartsOutOfBounds(d, bo, h, mode)
    THEN [error |-> "IndexError", output |-> NoOutput]
    ELSE [error |-> "",
          output |-> StringArray(CumSum(0, IndexedCounts(d, bo, h, mode)),
                                 Select(d, bo, h, mode, truthy))]

\* AsStrings.basket_array as a function of its arguments
basket_array(d, bo, h, mode, w, truthy) ==
    IF bo = NoOffsets THEN ScanAll(ScanInit(d), d, mode, w)
    ELSE IndexedDecode(d, bo, h, mode, truthy)

----------------------------------------------------------------------------
(* The writer: the length-prefixed records a basket holds *)

\* n as four big-endian bytes
BigEndian4(n) ==
    <<n \div (2 ^ 24), (n \div (2 ^ 16)) % 256, (n \div (2 ^ 8)) % 256, n % 256>>

\* the length prefix of a string of n bytes
Prefix(n, mode) ==
    IF mode = "4" THEN BigEndian4(n)
    ELSE IF n < 255 THEN <<n>> ELSE <<255>> \o BigEndian4(n)

\* one record: header_bytes of filler (bytes 255, which a reader that does not
\* skip them takes for the escape), the prefix, the bytes
EncodeOne(str, h, mode) ==
    [i \in 1..h |-> 255] \o Prefix(Len(str), mode) \o str

RECURSIVE Encode(_, _, _)
Encode(strs, h, mode) ==
    IF strs = <<>> THEN <<>>
    ELSE EncodeOne(strs[1], h, mode) \o Encode(Tail(strs), h, mode)

\* the byte index of the records: the start of each, then the buffer end
RECURSIVE RecordOffsets(_, _, _, _)
RecordOffsets(at, strs, h, mode) ==
    IF strs = <<>> THEN <<at>>
    ELSE <<at>> \o RecordOffsets(at + Len(EncodeOne(strs[1], h, mode)),
                                 Tail(strs), h, mode)

----------------------------------------------------------------------------
(* Inputs *)

SeqsUpTo(S, n) == UNION {[1..k -> S] : k \in 0..n}

Modes == {"1-5", "4"}

\* a string past the one-byte prefix range, bytes alternating so that a shift shows
LongString(n) == [i \in 1..n |-> 97 + (i % 2)]

\* lengths around the 255 escape of "1-5"
LongLengths == {254, 255, 256}

\* the strings the writer draws from
StringPool == {<<>>, <<97>>, <<98, 99>>} \cup {LongString(n) : n \in LongLengths}

\* bytes of raw buffers: small lengths, the escape byte
RawBytes == {0, 1, 3, 255}

RawBuffers == SeqsUpTo(RawBytes, MaxRaw)

IndexedRawBuffers == SeqsUpTo({1, 255}, MaxIndexed)

\* a byte index a caller may hand over with a raw buffer: ascending, possibly
\* past the end of the buffer
RawOffsets(d) ==
    {bo \in UNION {[1..k -> 0..(Len(d) + 1)] : k \in 1..MaxIndexed} :
        \A i \in 1..(Len(bo) - 1) : bo[i] <= bo[i + 1]}

----------------------------------------------------------------------------
(* State machine: basket_array *)

Init ==
    /\ pc = "idle"
    /\ length_bytes = "1-5"
    /\ header_bytes = 0
    /\ data = <<>>
    /\ byte_offsets = NoOffsets
    /\ written = NotEncoded
    /\ wraps = TRUE
    /\ scan = ScanInit(<<>>)
    /\ output = NoOutput
    /\ error = ""
    /\ events = <<>>
    /\ basket_arrays = <<>>
    /\ entry_start = 0
    /\ entry_stop = 0
    /\ entry_offsets = <<0>>
    /\ column = <<>>
    /\ basket_offsets = <<>>
    /\ basket_content = <<>>
    /\ length = 0
    /\ start = 0
    /\ basket_num = 0
    /\ offsets = <<>>
    /\ before = 0
    /\ contents = <<>>
    /\ looked_up = {}
    /\ pass1 = <<>>
    /\ pass2 = <<>>
    /\ returned = NoReturn

\* entry of basket_array: hook_before_basket_array, then the branch on byte_offsets
Enter(d, bo, h, mode, strs, w) ==
    /\ data' = d
    /\ byte_offsets' = bo
    /\ header_bytes' = h
    /\ length_bytes' = mode
    /\ written' = strs
    /\ wraps' = w
    /\ scan' = ScanInit(d)
    /\ events' = <<"hook_before_basket_array">>
    /\ pc' = IF bo = NoOffsets THEN "scan" ELSE "indexed"
    /\ UNCHANGED <<output, error, stitchVars>>

\* basket_array(data, None, ...) on a basket the writer encoded
CallUnindexedEncoded ==
    /\ pc = "idle"
    /\ \E strs \in SeqsUpTo(StringPool, MaxStrings), mode \in Modes :
        Enter(Encode(strs, 0, mode), NoOffsets, 0, mode, strs, TRUE)

\* basket_array(data, None, ...) on any buffer
CallUnindexedRaw ==
    /\ pc = "idle"
    /\ \E d \in RawBuffers, mode \in Modes, w \in BOOLEAN :
        Enter(d, NoOffsets, 0, mode, NotEncoded, w)

\* basket_array(data, byte_offsets, ...) on a basket the writer encoded and indexed
CallIndexedEncoded ==
    /\ pc = "idle"
    /\ \E strs \in SeqsUpTo(StringPool, MaxStrings), mode \in Modes, h \in {0, 1} :
        Enter(Encode(strs, h, mode), RecordOffsets(0, strs, h, mode), h, mode,
              strs, TRUE)

\* basket_array(data, byte_offsets, ...) on any buffer and any ascending index
CallIndexedRaw ==
    /\ pc = "idle"
    /\ \E d \in IndexedRawBuffers, mode \in Modes, h \in {0, 1} :
        \E bo \in RawOffsets(d) :
            Enter(d, bo, h, mode, NotEncoded, TRUE)

\* one iteration of the while loop of the unindexed path
ScanLoop ==
    /\ pc = "scan"
    /\ scan.pos < Len(data)
    /\ LET r == ScanStep(scan, data, length_bytes, wraps)
       IN  IF r.err # ""
           THEN /\ pc' = "raised"
                /\ error' = r.err
                /\ UNCHANGED scan
           ELSE /\ scan' = r.st
                /\ UNCHANGED <<pc, error>>
    /\ UNCHANGED <<length_bytes, header_bytes, data, byte_offsets, written,
                   wraps, output, events, stitchVars>>

\* the break, the trimming, the offsets, hook_after_basket_array and the return
ScanReturn ==
    /\ pc = "scan"
    /\ scan.pos >= Len(data)
    /\ output' = ScanOutput(scan)
    /\ events' = Append(events, "hook_after_basket_array")
    /\ pc' = "returned"
    /\ UNCHANGED <<decodeVars, error, stitchVars>>

\* the indexed branch to the return; with a mask outside {0, 1} the selection
\* is undefined: the call fails, or selects by truthiness, or selects the ones
IndexedReturn ==
    /\ pc = "indexed"
    /\ \E truthy \in BOOLEAN, crash \in BOOLEAN :
        /\ ~MaskUndefined(data, byte_offsets, header_bytes, length_bytes)
            => (truthy /\ ~crash)
        /\ LET r == IndexedDecode(data, byte_offsets, header_bytes,
                                  length_bytes, truthy)
           IN  IF r.error # "" \/ crash
               THEN /\ pc' = "raised"
                    /\ error' = IF crash THEN "undefined" ELSE r.error
                    /\ UNCHANGED <<output, events>>
               ELSE /\ pc' = "returned"
                    /\ output' = r.output
                    /\ events' = Append(events, "hook_after_basket_array")
                    /\ UNCHANGED error
    /\ UNCHANGED <<decodeVars, stitchVars>>

NextDecode ==
    \/ CallUnindexedEncoded
    \/ CallUnindexedRaw
    \/ CallIndexedEncoded
    \/ CallIndexedRaw
    \/ ScanLoop
    \/ ScanReturn
    \/ IndexedReturn

SpecDecode == Init /\ [][NextDecode]_vars

----------------------------------------------------------------------------
(* final_array: the overlap classification and the two passes *)

\* which branch of the if / elif chain basket [st, sp) takes for the request
\* [es, et): 1..4 in source order, 0 when none
Branch(st, sp, es, et) ==
    IF st <= es /\ et <= sp THEN 1
    ELSE IF st <= es /\ es < sp THEN 2
    ELSE IF st <= et /\ et <= sp THEN 3
    ELSE IF es < sp /\ st <= et THEN 4
    ELSE 0

\* pass 1 counting the basket's stop as an entry where the request starts
\* inside the basket
Pass1AddInclusive(b, st, sp, es, et) ==
    CASE b = 1 -> et - es
      [] b = 2 -> sp - es + 1
      [] b = 3 -> et - st
      [] b = 4 -> sp - st
      [] OTHER -> 0

\* what pass 1 adds to length in branch b
Pass1Add(b, st, sp, es, et) ==
    CASE b = 1 -> et - es
      [] b = 2 -> sp - es
      [] b = 3 -> et - st
      [] b = 4 -> sp - st
      [] OTHER -> 0

\* local_start taken from the basket's first entry in every branch
LocalStartFromZero(b, st, es) == 0

\* local_start of branch b (branch 4 slices from off[0])
LocalStart(b, st, es) == IF b \in {1, 2} THEN es - st ELSE 0

\* local_stop of branch b (branch 4 slices to off[-1])
LocalStop(b, st, sp, et, off) ==
    CASE b = 1 -> et - st
      [] b = 2 -> sp - st
      [] b = 3 -> et - st
      [] OTHER -> Len(off) - 1

\* first slot of the destination slice of offsets in branch b
DestLo(b, st, es) == IF b \in {1, 2} THEN 0 ELSE st - es

\* slot after the last of the destination slice; n is len(offsets)
DestHi(b, sp, es, n) == IF b \in {1, 3} THEN n ELSE sp - es + 1

\* before - off[local_start] + off[local_start : local_stop + 1]
Rebased(off, bef, ls, le) ==
    LET src == Slice(off, ls, le + 1)
    IN  [i \in 1..Len(src) |-> bef - off[ls + 1] + src[i]]

\* cnt[off[local_start] : off[local_stop]]
Fragment(off, cnt, ls, le) == Slice(cnt, off[ls + 1], off[le + 1])

\* the exception one iteration of pass 2 raises in branch b, "" when none
Pass2Error(b, k, bo, offs, st, sp, es, et, bef) ==
    IF k \notin DOMAIN bo THEN "KeyError"
    ELSE LET off == bo[k]
             ls  == LocalStart(b, st, es)
             le  == LocalStop(b, st, sp, et, off)
         IN  IF ls >= Len(off) THEN "IndexError"
             ELSE IF ~CanAssign(offs, DestLo(b, st, es),
                                DestHi(b, sp, es, Len(offs)),
                                Rebased(off, bef, ls, le))
             THEN "ValueError"
             ELSE IF le >= Len(off) THEN "IndexError"
             ELSE ""

\* library.zeros((1,), numpy.int64)
zeros(n) == [i \in 1..n |-> 0]

\* the degenerate column without its one offset
EmptyArrayNoOffset == StringArray(zeros(0), <<>>)

\* the column the degenerate request returns
EmptyArray == StringArray(zeros(1), <<>>)

\* library.finalize(output, branch, self, entry_start, entry_stop): opaque,
\* its result only remembers the StringArray it was handed
finalize(x) == [from |-> "library.finalize", array |-> x]

\* values numpy.empty may leave in a slot never written
Uninitialised == {0, -1}

----------------------------------------------------------------------------
(* Inputs of final_array *)

\* entry_offsets[0]
FirstEntries == {0, 1}

\* the entry counts of the baskets, in order (empty baskets included)
ChunkSizes == UNION {[1..c -> 0..MaxChunkLen] : c \in 1..MaxChunks}

\* the string of logical entry e: lengths 1, 0, 2, 1, 0, 2, ..., bytes naming e
ColumnString(e) == [i \in 1..((2 * e + 1) % 3) |-> 100 + e]

\* the logical entries first .. first + total - 1
Column(first, total) == [i \in 1..total |-> ColumnString(first + i - 1)]

\* the strings of basket k (0-based) of a column cut at eo
ChunkStrings(col, eo, k) == SubSeq(col, eo[k + 1] - eo[1] + 1, eo[k + 2] - eo[1])

\* the StringArray basket_array returns for basket k
ChunkArray(col, eo, k, mode) ==
    basket_array(Encode(ChunkStrings(col, eo, k), 0, mode), NoOffsets, 0, mode,
                 TRUE, TRUE).output

\* the baskets holding at least one entry of [es, et)
Touched(eo, es, et) ==
    {k \in 0..(Len(eo) - 2) : Max(eo[k + 1], es) < Min(eo[k + 2], et)}

----------------------------------------------------------------------------
(* State machine: final_array *)

\* entry of final_array: hook_before_final_array, then basket_offsets and
\* basket_content copied out of basket_arrays
FinalArrayCall ==
    /\ pc = "idle"
    /\ \E first \in FirstEntries, sizes \in ChunkSizes, all \in BOOLEAN :
        LET eo  == CumSum(first, sizes)
            col == Column(first, Sum(sizes))
        IN  \E es \in 0..(eo[Len(eo)] + 1), et \in 0..(eo[Len(eo)] + 1) :
                LET keys == IF all THEN 0..(Len(eo) - 2) ELSE Touched(eo, es, et)
                    arrs == [k \in keys |-> ChunkArray(col, eo, k, length_bytes)]
                IN  /\ entry_offsets' = eo
                    /\ column' = col
                    /\ entry_start' = es
                    /\ entry_stop' = et
                    /\ basket_arrays' = arrs
                    /\ basket_offsets' = [k \in keys |-> arrs[k].offsets]
                    /\ basket_content' = [k \in keys |-> arrs[k].content]
    /\ events' = <<"hook_before_final_array">>
    /\ pc' = "final_array"
    /\ UNCHANGED <<decodeVars, output, error, length, start, basket_num,
                   offsets, before, contents, looked_up, pass1, pass2, returned>>

\* entry_start >= entry_stop: the StringArray is returned at once
EmptyReturn ==
    /\ pc = "final_array"
    /\ entry_start >= entry_stop
    /\ returned' = [from |-> "StringArray", array |-> EmptyArray]
    /\ pc' = "returned"
    /\ UNCHANGED <<decodeVars, output, error, events, argVars, length, start,
                   basket_num, offsets, before, contents, looked_up, pass1, pass2>>

\* length = 0; start = entry_offsets[0]
Pass1Begin ==
    /\ pc = "final_array"
    /\ entry_start < entry_stop
    /\ length' = 0
    /\ start' = entry_offsets[1]
    /\ basket_num' = 0
    /\ pc' = "pass1"
    /\ UNCHANGED <<decodeVars, output, error, events, argVars, offsets, before,
                   contents, looked_up, pass1, pass2, returned>>

\* one iteration of the measuring loop
Pass1Step ==
    /\ pc = "pass1"
    /\ basket_num < Len(entry_offsets) - 1
    /\ LET stop == entry_offsets[basket_num + 2]
           b    == Branch(start, stop, entry_start, entry_stop)
           add  == Pass1Add(b, start, stop, entry_start, entry_stop)
       IN  /\ length' = length + add
           /\ pass1' = Append(pass1, add)
           /\ start' = stop
    /\ basket_num' = basket_num + 1
    /\ UNCHANGED <<pc, decodeVars, output, error, events, argVars, offsets,
                   before, contents, looked_up, pass2, returned>>

\* offsets = numpy.empty((length + 1,)); before = 0; start = entry_offsets[0];
\* contents = []
Pass2Begin ==
    /\ pc = "pass1"
    /\ basket_num = Len(entry_offsets) - 1
    /\ \E g \in Uninitialised : offsets' = [i \in 1..(length + 1) |-> g]
    /\ before' = 0
    /\ start' = entry_offsets[1]
    /\ contents' = <<>>
    /\ basket_num' = 0
    /\ pc' = "pass2"
    /\ UNCHANGED <<decodeVars, output, error, events, argVars, length,
                   looked_up, pass1, pass2, returned>>

\* one iteration of the copying loop
Pass2Step ==
    /\ pc = "pass2"
    /\ basket_num < Len(entry_offsets) - 1
    /\ LET stop == entry_offsets[basket_num + 2]
           b    == Branch(start, stop, entry_start, entry_stop)
           err  == Pass2Error(b, basket_num, basket_offsets, offsets, start,
                              stop, entry_start, entry_stop, before)
       IN  IF b = 0
           THEN /\ start' = stop
                /\ basket_num' = basket_num + 1
                /\ UNCHANGED <<pc, error, offsets, before, contents, looked_up,
                               pass2>>
           ELSE IF err # ""
           THEN /\ pc' = "raised"
                /\ error' = err
                /\ looked_up' = looked_up \cup {basket_num}
                /\ UNCHANGED <<start, basket_num, offsets, before, contents,
                               pass2>>
           ELSE LET off == basket_offsets[basket_num]
                    cnt == basket_content[basket_num]
                    ls  == LocalStart(b, start, entry_start)
                    le  == LocalStop(b, start, stop, entry_stop, off)
                    lo  == DestLo(b, start, entry_start)
                    hi  == DestHi(b, stop, entry_start, Len(offsets))
                    src == Rebased(off, before, ls, le)
                IN  /\ offsets' = AssignSlice(offsets, lo, hi, src)
                    /\ before' = before + off[le + 1] - off[ls + 1]
                    /\ contents' = Append(contents, Fragment(off, cnt, ls, le))
                    /\ looked_up' = looked_up \cup {basket_num}
                    /\ pass2' = Append(pass2,
                                   [basket |-> basket_num, branch |-> b,
                                    lo |-> lo,
                                    dst |-> SliceLen(offsets, lo, hi),
                                    src |-> Len(src)])
                    /\ start' = stop
                    /\ basket_num' = basket_num + 1
                    /\ UNCHANGED <<pc, error>>
    /\ UNCHANGED <<decodeVars, output, events, argVars, length, pass1, returned>>

\* output = StringArray(offsets, b"".join(contents)); hook_before_library_finalize
Pass2Done ==
    /\ pc = "pass2"
    /\ basket_num = Len(entry_offsets) - 1
    /\ output' = StringArray(offsets, Concat(contents))
    /\ events' = Append(events, "hook_before_library_finalize")
    /\ pc' = "finalize"
    /\ UNCHANGED <<decodeVars, error, argVars, length, start, basket_num,
                   offsets, before, contents, looked_up, pass1, pass2, returned>>

\* output = library.finalize(...); hook_after_final_array; return output
FinalizeReturn ==
    /\ pc = "finalize"
    /\ events' = events \o <<"library.finalize", "hook_after_final_array">>
    /\ returned' = finalize(output)
    /\ pc' = "returned"
    /\ UNCHANGED <<decodeVars, output, error, argVars, length, start,
                   basket_num, offsets, before, contents, looked_up, pass1, pass2>>

NextStitch ==
    \/ FinalArrayCall
    \/ EmptyReturn
    \/ Pass1Begin
    \/ Pass1Step
    \/ Pass2Begin
    \/ Pass2Step
    \/ Pass2Done
    \/ FinalizeReturn

SpecStitch == Init /\ [][NextStitch]_vars

----------------------------------------------------------------------------

Next == NextDecode \/ NextStitch

Spec == Init /\ [][Next]_vars

----------------------------------------------------------------------------
(* Properties *)

\* a call of final_array is in flight or over
InFinalArray == events # <<>> /\ events[1] = "hook_before_final_array"

\* a call of basket_array is in flight or over
InBasketArray == events # <<>> /\ events[1] = "hook_before_basket_array"

\* entry_offsets[0] <= entry_start < entry_stop <= entry_offsets[-1]
InRange ==
    /\ entry_offsets[1] <= entry_start
    /\ entry_start < entry_stop
    /\ entry_stop <= entry_offsets[Len(entry_offsets)]

\* every basket of the partition is in basket_arrays
AllSupplied == DOMAIN basket_arrays = 0..(Len(entry_offsets) - 2)

\* the logical entries entry_start .. entry_stop - 1 of the column
Requested ==
    SubSeq(column, entry_start - entry_offsets[1] + 1,
           entry_stop - entry_offsets[1])

\* C1: with every basket supplied and the request inside the column, the call
\* raises nothing, and the StringArray built and handed to library.finalize
\* holds exactly entry_stop - entry_start strings, the i-th being logical
\* entry entry_start + i of the column.
C1_StitchCorrect ==
    (InFinalArray /\ InRange /\ AllSupplied) =>
        /\ pc # "raised"
        /\ pc = "finalize" =>
            /\ StrLen(output) = entry_stop - entry_start
            /\ Strings(output) = Requested
        /\ pc = "returned" =>
            /\ returned.from = "library.finalize"
            /\ StrLen(returned.array) = entry_stop - entry_start
            /\ Strings(returned.array) = Requested

\* C1 witness: three baskets, the request starting inside the first and
\* ending inside the last, stitched and returned.
C1_Witness ==
    /\ InFinalArray /\ InRange /\ AllSupplied
    /\ pc = "returned"
    /\ Len(entry_offsets) = 4
    /\ entry_offsets[1] < entry_start /\ entry_start < entry_offsets[2]
    /\ entry_offsets[3] < entry_stop /\ entry_stop < entry_offsets[4]
    /\ Len(returned.array.content) > 3

\* entries of basket k (0-based) inside the request
Overlap(k) ==
    Max(0, Min(entry_offsets[k + 2], entry_stop)
           - Max(entry_offsets[k + 1], entry_start))

\* the slots of offsets the pass-2 writes so far have covered
Covered == UNION {r.lo..(r.lo + r.dst - 1) : r \in {pass2[i] : i \in DOMAIN pass2}}

\* C10: for a request inside the column and every basket supplied, the count
\* pass 1 adds for a basket is the number of its entries inside the request
\* and the total is entry_stop - entry_start; every pass-2 write has a
\* destination slice as long as its source slice; once pass 2 is over the
\* written slices cover every slot of offsets and the last offset is the
\* length of the joined content.
C10_Tiling ==
    (InFinalArray /\ InRange /\ AllSupplied) =>
        /\ \A k \in 0..(Len(pass1) - 1) : pass1[k + 1] = Overlap(k)
        /\ pc \in {"pass2", "finalize", "returned"} =>
            /\ length = entry_stop - entry_start
            /\ Len(offsets) = length + 1
        /\ \A i \in DOMAIN pass2 : pass2[i].dst = pass2[i].src
        /\ pc \in {"finalize", "returned"} =>
            /\ Covered = 0..length
            /\ output.offsets[Len(output.offsets)] = Len(output.content)

\* C10 witness: a finished pass 2 over a request that starts inside one
\* basket, ends inside another and has an empty basket (equal boundaries)
\* between them.
C10_Witness ==
    /\ InFinalArray /\ InRange /\ AllSupplied
    /\ pc = "finalize"
    /\ \E i \in DOMAIN pass2 : pass2[i].branch = 4 /\ pass2[i].src = 1
    /\ \E i \in DOMAIN pass2 : pass2[i].branch = 2
    /\ \E i \in DOMAIN pass2 : pass2[i].branch = 3

\* C5: a request with entry_stop <= entry_start returns a column of one
\* offset equal to 0 and empty content, runs neither pass and indexes no
\* basket's offsets or content, whatever basket_arrays and entry_offsets hold.
C5_EmptyRange ==
    (InFinalArray /\ entry_stop <= entry_start) =>
        /\ pc \in {"final_array", "returned"}
        /\ looked_up = {}
        /\ pc = "returned" =>
            /\ returned.array.offsets = <<0>>
            /\ returned.array.content = <<>>

\* C5 witness: an empty request over baskets that hold content has returned.
C5_Witness ==
    /\ InFinalArray
    /\ pc = "returned"
    /\ entry_stop < entry_start
    /\ \E k \in DOMAIN basket_content : basket_content[k] # <<>>

\* C4 as claimed: a non-empty request reaching outside
\* [entry_offsets[0], entry_offsets[-1]] never returns.
C4_OutOfRangeRaises ==
    (InFinalArray /\ entry_start < entry_stop /\ ~InRange) =>
        pc \notin {"finalize", "returned"}

\* C8 as claimed: every call of final_array that returns has handed the
\* stitched StringArray to library.finalize exactly once, between
\* hook_before_final_array and hook_after_final_array, and returns that
\* result unchanged.
C8_FinalizeHandOff ==
    (InFinalArray /\ pc = "returned") =>
        /\ Len(SelectSeq(events, LAMBDA e : e = "library.finalize")) = 1
        /\ events[Len(events)] = "hook_after_final_array"
        /\ events[Len(events) - 1] = "library.finalize"
        /\ returned = finalize(output)

\* C9 as claimed: pass 2 indexes basket_offsets and basket_content only with
\* baskets holding an entry of the request, and a call given exactly those
\* baskets raises nothing.
C9_OnlyOverlappingRead ==
    (InFinalArray /\ InRange) =>
        /\ looked_up \subseteq Touched(entry_offsets, entry_start, entry_stop)
        /\ DOMAIN basket_arrays = Touched(entry_offsets, entry_start, entry_stop)
            => pc # "raised"

\* the call decodes a writer's buffer through the unindexed "1-5" path
RoundTrip15 ==
    /\ InBasketArray
    /\ written # NotEncoded
    /\ byte_offsets = NoOffsets
    /\ length_bytes = "1-5"

\* bytes of the buffer a "1-5" reader has to have consumed after the first n
\* strings: 1 prefix byte under 255 bytes of length, 5 from 255 on
Consumed(strs, n) ==
    Sum([i \in 1..n |->
            (IF Len(strs[i]) < 255 THEN 1 ELSE 5) + Len(strs[i])])

OtherIndex ==
    IF byte_offsets = NoOffsets
    THEN RecordOffsets(0, written, 0, length_bytes)
    ELSE NoOffsets

\* C6: for a writer's buffer (no per-entry header), in either length_bytes
\* mode, the call raises nothing and the StringArray it returns has the same
\* offsets and the same content as the one the other path (with byte_offsets
\* where this call had none, without where it had) returns for that buffer.
C6_IndexedAgrees ==
    (InBasketArray /\ written # NotEncoded /\ header_bytes = 0) =>
        /\ pc # "raised"
        /\ pc = "returned" =>
            LET other == basket_array(data, OtherIndex, 0, length_bytes,
                                      TRUE, TRUE)
            IN  /\ other.error = ""
                /\ output.offsets = other.output.offsets
                /\ output.content = other.output.content

\* C6 witness: an indexed call has returned for a buffer holding an empty
\* string and a string past the escape length, the last record ending at the
\* end of the buffer.
C6_Witness ==
    /\ InBasketArray /\ written # NotEncoded /\ header_bytes = 0
    /\ pc = "returned"
    /\ byte_offsets # NoOffsets
    /\ byte_offsets[Len(byte_offsets)] = Len(data)
    /\ \E i \in DOMAIN written : written[i] = <<>>
    /\ \E i \in DOMAIN written : Len(written[i]) >= 255

\* C3 as claimed: an unindexed call returns only when no length prefix
\* declared more bytes than the buffer held after it, that is with the cursor
\* exactly at the end of the buffer.
C3_TruncationRaises ==
    (InBasketArray /\ byte_offsets = NoOffsets /\ pc = "returned") =>
        scan.pos = Len(data)

\* entries the call decoded
Count == IF byte_offsets = NoOffsets THEN scan.entry_num ELSE Len(byte_offsets) - 1

\* C7 as claimed: every StringArray basket_array returns has count + 1
\* offsets, the first 0, none below its predecessor, the last equal to the
\* length of the content.
C7_OutputGuarantee ==
    (InBasketArray /\ pc = "returned") =>
        /\ Len(output.offsets) = Count + 1
        /\ output.offsets[1] = 0
        /\ \A i \in 1..(Len(output.offsets) - 1) :
                output.offsets[i] <= output.offsets[i + 1]
        /\ Len(output.content) = output.offsets[Len(output.offsets)]

====
